---- MODULE Spec2Model ----
(***************************************************************************)
(* The test runner of lib/filetests (runner.rs): the job list and its      *)
(* state machine, directory scanning, scheduling in synchronous and in     *)
(* concurrent mode, in-order reporting, the stall watchdog and the final   *)
(* result.  The worker pool (concurrent.rs) is outside the sources at      *)
(* hand; it is modelled from its description: workers that emit Starting   *)
(* and Done for each unit of work, a timer that emits heartbeats, and one  *)
(* FIFO reply channel.                                                     *)
(***************************************************************************)
EXTENDS Integers, Sequences, FiniteSets, TLC

VARIABLES
    verbose,              \* TestRunner.verbose
    dir_stack,            \* TestRunner.dir_stack
    tests,                \* TestRunner.tests: sequence of QueueEntry
    new_tests,            \* TestRunner.new_tests (0-based index)
    reported_tests,       \* TestRunner.reported_tests
    errors,               \* TestRunner.errors
    ticks_since_progress, \* TestRunner.ticks_since_progress
    threads,              \* TestRunner.threads is Some(..)
    pc,                   \* where the coordinator thread is
    ret,                  \* where schedule_jobs returns to
    out,                  \* the report lines printed so far
    stall_out,           \* the stall warning printed by the reply handled last
    result,               \* what run() returned
    panic,                \* why the coordinator panicked, if it did
    exec,                 \* the Executor: what runone::run does with each path,
                          \* fixed when the path is first run ("?" before)
    intake,               \* pool: the request channel
    replies,              \* pool: the reply channel
    workers,              \* pool: the worker threads
    timer,                \* pool: the heartbeat thread
    shut,                 \* pool: shutdown() has been called
    conc,                 \* run() was entered with a pool
    hb_streak,            \* history: Tick replies handled since the last Done
    hb_warned,            \* history: stall warnings printed since the last Done
    finished,             \* history: the job-ids in the order they finished
    roots,                \* history: what had been pushed when run() began
    ref                   \* the outcome of the synchronous reference run

vars == <<verbose, dir_stack, tests, new_tests, reported_tests, errors,
          ticks_since_progress, threads, pc, ret, out, stall_out, result,
          panic, exec,
          intake, replies, workers, timer, shut, conc, hb_streak, hb_warned,
          finished,
          roots, ref>>

runnerVars == <<dir_stack, tests, new_tests, reported_tests, errors,
                ticks_since_progress, out, stall_out, panic>>
poolVars == <<intake, replies, workers, timer, shut>>
histVars == <<hb_streak, hb_warned, finished>>

----------------------------------------------------------------------------
(* Bounds of the model and constants of the program.                       *)

NumWorkers == 2
MaxPush == 1
MaxJobs == 5

TIMEOUT_PANIC == 10
TIMEOUT_SLOW == 3

Workers == 1..NumWorkers

----------------------------------------------------------------------------
(* Paths and the file tree that read_dir() sees.                           *)

NoExt == "none"

P(name, ext) == [name |-> name, ext |-> ext]

\* path.extension().and_then(OsStr::to_str)
Extension(path) == path.ext

Entry(path) == [ok |-> TRUE, path |-> path]
EntryErr == [ok |-> FALSE, path |-> P("", NoExt)]

\* dir.read_dir(): Ok(entries) for a directory, Err otherwise
ReadDir(path) ==
    CASE path.name = "t" ->
           [ok |-> TRUE,
            entries |-> << Entry(P("t/a.cton", "cton")),
                           Entry(P("t/n.txt", "txt")),
                           Entry(P("t/s", NoExt)) >>]
      [] path.name = "t/s" ->
           [ok |-> TRUE,
            entries |-> << Entry(P("t/s/b.cton", "cton")),
                           EntryErr,
                           Entry(P("t/s/d.cton", "cton")) >>]
      [] path.name = "g" ->
           [ok |-> TRUE,
            entries |-> << Entry(P("g/f", NoExt)),
                           Entry(P("g/gone", NoExt)) >>]
      [] OTHER -> [ok |-> FALSE, entries |-> << >>]

\* dir.is_file()
IsFile(path) == path.name \in {"g/f", "t/a.cton", "t/n.txt", "t/s/b.cton",
                               "t/s/d.cton", "x.cton"}

\* what the caller may push before run(), each at most once
RootDirs == { P("t", NoExt), P("g", NoExt) }
RootTests == { P("x.cton", "cton") }

\* what the Executor may do with each test file
Outcomes(name) ==
    IF name = "t/s/b.cton" THEN {"ok", "fail", "hang"} ELSE {"ok", "fail"}
TestNames == { "t/a.cton", "t/s/b.cton", "x.cton" }

----------------------------------------------------------------------------
(* TestResult, State and QueueEntry.                                       *)

Ok(dur) == [ok |-> TRUE, dur |-> dur, err |-> ""]
Err(e) == [ok |-> FALSE, dur |-> 0, err |-> e]
NoResult == [ok |-> FALSE, dur |-> 0, err |-> "-"]

New == [tag |-> "New", result |-> NoResult]
Queued == [tag |-> "Queued", result |-> NoResult]
Running == [tag |-> "Running", result |-> NoResult]
Done(res) == [tag |-> "Done", result |-> res]

QueueEntry(path, state) == [path |-> path, state |-> state]

\* Durations the Executor reports, in milliseconds.
Dur(path) ==
    CASE path.name = "t/a.cton" -> 1002
      [] path.name = "t/s/b.cton" -> 15
      [] path.name = "x.cton" -> 999
      [] OTHER -> 2500

\* runone::run(path) when it returns, for the Executor e
runone_run(e, path) ==
    IF e[path.name] = "ok" THEN Ok(Dur(path))
    ELSE Err("syntax error on line 3")

\* The Executor is deterministic: a path's outcome is chosen once.
Decided(path) ==
    { [exec EXCEPT ![path.name] = o] :
        o \in IF exec[path.name] = "?" THEN Outcomes(path.name)
              ELSE {exec[path.name]} }

\* impl Display for QueueEntry; id is the job's index, kept for reference
Display(entry, id) ==
    CASE entry.state.tag = "Done" /\ entry.state.result.ok ->
           [kind |-> "time", id |-> id, path |-> entry.path.name,
            secs |-> entry.state.result.dur \div 1000,
            millis |-> entry.state.result.dur % 1000,
            err |-> ""]
      [] entry.state.tag = "Done" /\ ~entry.state.result.ok ->
           [kind |-> "FAIL", id |-> id, path |-> entry.path.name,
            secs |-> 0, millis |-> 0, err |-> entry.state.result.err]
      [] OTHER ->
           [kind |-> "path", id |-> id, path |-> entry.path.name,
            secs |-> 0, millis |-> 0, err |-> ""]

Line(kind, id, path, a, b) ==
    [kind |-> kind, id |-> id, path |-> path, secs |-> a, millis |-> b,
     err |-> ""]

----------------------------------------------------------------------------
(* The runner's fields as one record, and the methods as functions of it.  *)

Self ==
    [dir_stack |-> dir_stack, tests |-> tests, new_tests |-> new_tests,
     reported_tests |-> reported_tests, errors |-> errors,
     ticks_since_progress |-> ticks_since_progress, out |-> out,
     stall_out |-> stall_out, panic |-> panic]

Commit(r) ==
    /\ dir_stack' = r.dir_stack
    /\ tests' = r.tests
    /\ new_tests' = r.new_tests
    /\ reported_tests' = r.reported_tests
    /\ errors' = r.errors
    /\ ticks_since_progress' = r.ticks_since_progress
    /\ out' = r.out
    /\ stall_out' = r.stall_out
    /\ panic' = r.panic

\* tests[jobid] with 0-based jobid
Job(r, jobid) == r.tests[jobid + 1]

SetState(r, jobid, state) ==
    [r EXCEPT !.tests[jobid + 1].state = state]

\* TestRunner::push_dir
push_dir(r, dir) == [r EXCEPT !.dir_stack = Append(@, dir)]

\* TestRunner::push_test
push_test(r, file) == [r EXCEPT !.tests = Append(@, QueueEntry(file, New))]

\* Variant of path_error: the error is printed and not counted.
path_error_uncounted(r, path) ==
    [r EXCEPT !.out = Append(@, Line("scanerr", -1, path.name, 0, 0))]

\* TestRunner::path_error
path_error(r, path) ==
    [r EXCEPT !.errors = @ + 1,
              !.out = Append(@, Line("scanerr", -1, path.name, 0, 0))]

\* Variant of report_job_done: any job that has left New counts as done.
report_job_done_started(r) ==
    /\ r.reported_tests < Len(r.tests)
    /\ Job(r, r.reported_tests).state.tag # "New"

\* TestRunner::report_job: TRUE when the next in-order job is done
report_job_done(r) ==
    /\ r.reported_tests < Len(r.tests)
    /\ Job(r, r.reported_tests).state.tag = "Done"

\* Variant of report_job_print: every reported job is echoed.
report_job_print_all(r) ==
    LET jobid == r.reported_tests
    IN [r EXCEPT !.out = Append(@, Display(Job(r, jobid), jobid))]

\* TestRunner::report_job: what it prints
report_job_print(r) ==
    LET jobid == r.reported_tests
    IN IF verbose \/ ~Job(r, jobid).state.result.ok
       THEN [r EXCEPT !.out = Append(@, Display(Job(r, jobid), jobid))]
       ELSE r

\* Variant of report_loop: at most one job is reported per finished job.
report_once(r) ==
    IF report_job_done(r)
    THEN [report_job_print(r) EXCEPT !.reported_tests = @ + 1]
    ELSE r

\* the loop "while self.report_job() { self.reported_tests += 1; }"
RECURSIVE report_loop(_)
report_loop(r) ==
    IF report_job_done(r)
    THEN report_loop([report_job_print(r) EXCEPT !.reported_tests = @ + 1])
    ELSE r

\* Variant of finish_job: the job that has just finished is reported at once.
finish_job_eager(r, jobid, res) ==
    IF Job(r, jobid).state.tag # "Running"
    THEN [r EXCEPT !.panic = "assert"]
    ELSE LET r1 == IF ~res.ok THEN [r EXCEPT !.errors = @ + 1] ELSE r
             r2 == SetState(r1, jobid, Done(res))
         IN [r2 EXCEPT !.out = Append(@, Display(Job(r2, jobid), jobid)),
                       !.reported_tests = @ + 1]

\* Variant of finish_job: the result is recorded and nothing is reported.
finish_job_unreported(r, jobid, res) ==
    IF Job(r, jobid).state.tag # "Running"
    THEN [r EXCEPT !.panic = "assert"]
    ELSE LET r1 == IF ~res.ok THEN [r EXCEPT !.errors = @ + 1] ELSE r
         IN SetState(r1, jobid, Done(res))

\* TestRunner::finish_job
finish_job(r, jobid, res) ==
    IF Job(r, jobid).state.tag # "Running"
    THEN [r EXCEPT !.panic = "assert"]
    ELSE LET r1 == IF ~res.ok THEN [r EXCEPT !.errors = @ + 1] ELSE r
             r2 == SetState(r1, jobid, Done(res))
         IN report_loop(r2)

\* Reply::Starting, Reply::Done and Reply::Tick
Starting(jobid) == [kind |-> "Starting", jobid |-> jobid, result |-> NoResult]
DoneReply(jobid, res) == [kind |-> "Done", jobid |-> jobid, result |-> res]
Tick == [kind |-> "Tick", jobid |-> -1, result |-> NoResult]

\* the "slow: {}" lines of the stall warning, for jobid in from..len-1
RECURSIVE stall_lines(_, _)
stall_lines(r, jobid) ==
    IF jobid >= Len(r.tests) THEN << >>
    ELSE (IF Job(r, jobid).state.tag = "Running"
          THEN << [kind |-> "slow", line |-> Display(Job(r, jobid), jobid)] >>
          ELSE << >>) \o stall_lines(r, jobid + 1)

\* Variant of handle_tick: the heartbeat is not counted.
handle_tick_uncounted(r) ==
    LET r2 == IF r.ticks_since_progress = TIMEOUT_SLOW
              THEN [r EXCEPT !.stall_out =
                      << [kind |-> "STALLED",
                          secs |-> r.ticks_since_progress,
                          reported |-> r.reported_tests,
                          total |-> Len(r.tests)] >>
                      \o stall_lines(r, r.reported_tests)]
              ELSE r
    IN IF r2.ticks_since_progress >= TIMEOUT_PANIC
       THEN [r2 EXCEPT !.panic = "watchdog"]
       ELSE r2

\* Variant of handle_tick: the warning is printed from the slow threshold on.
handle_tick_repeat(r) ==
    LET r1 == [r EXCEPT !.ticks_since_progress = @ + 1]
        r2 == IF r1.ticks_since_progress >= TIMEOUT_SLOW
              THEN [r1 EXCEPT !.stall_out =
                      << [kind |-> "STALLED",
                          secs |-> r1.ticks_since_progress,
                          reported |-> r1.reported_tests,
                          total |-> Len(r1.tests)] >>
                      \o stall_lines(r1, r1.reported_tests)]
              ELSE r1
    IN IF r2.ticks_since_progress >= TIMEOUT_PANIC
       THEN [r2 EXCEPT !.panic = "watchdog"]
       ELSE r2

\* handle_reply, Reply::Tick arm
handle_tick(r) ==
    LET r1 == [r EXCEPT !.ticks_since_progress = @ + 1]
        r2 == IF r1.ticks_since_progress = TIMEOUT_SLOW
              THEN [r1 EXCEPT !.stall_out =
                      << [kind |-> "STALLED",
                          secs |-> r1.ticks_since_progress,
                          reported |-> r1.reported_tests,
                          total |-> Len(r1.tests)] >>
                      \o stall_lines(r1, r1.reported_tests)]
              ELSE r1
    IN IF r2.ticks_since_progress >= TIMEOUT_PANIC
       THEN [r2 EXCEPT !.panic = "watchdog"]
       ELSE r2

\* handle_reply, Reply::Starting arm
handle_starting(r, jobid) ==
    IF Job(r, jobid).state.tag # "Queued"
    THEN [r EXCEPT !.panic = "assert"]
    ELSE SetState(r, jobid, Running)

\* handle_reply, Reply::Done arm
handle_done(r, jobid, res) ==
    finish_job([r EXCEPT !.ticks_since_progress = 0], jobid, res)

\* TestRunner::handle_reply
handle_reply(r, reply) ==
    LET r0 == [r EXCEPT !.stall_out = << >>]
    IN CASE reply.kind = "Starting" -> handle_starting(r0, reply.jobid)
         [] reply.kind = "Done" -> handle_done(r0, reply.jobid, reply.result)
         [] OTHER -> handle_tick(r0)

\* scan_dirs: the loop over the entries of one directory, from entry i
RECURSIVE scan_entries(_, _, _, _)
scan_entries(r, dir, entries, i) ==
    IF i > Len(entries) THEN r
    ELSE IF ~entries[i].ok THEN path_error(r, dir)
    ELSE LET path == entries[i].path
             r1 == CASE Extension(path) = "cton" -> push_test(r, path)
                     [] Extension(path) = NoExt -> push_dir(r, path)
                     [] OTHER -> r
         IN scan_entries(r1, dir, entries, i + 1)

\* Variant of scan_one: a failed read is an error for a regular file too.
scan_one_strict(r) ==
    LET dir == r.dir_stack[Len(r.dir_stack)]
        r1 == [r EXCEPT !.dir_stack = SubSeq(@, 1, Len(@) - 1)]
        rd == ReadDir(dir)
    IN IF ~rd.ok
       THEN path_error(r1, dir)
       ELSE scan_entries(r1, dir, rd.entries, 1)

\* scan_dirs: one iteration of "while let Some(dir) = self.dir_stack.pop()",
\* up to the call of schedule_jobs
scan_one(r) ==
    LET dir == r.dir_stack[Len(r.dir_stack)]
        r1 == [r EXCEPT !.dir_stack = SubSeq(@, 1, Len(@) - 1)]
        rd == ReadDir(dir)
    IN IF ~rd.ok
       THEN (IF ~IsFile(dir) THEN path_error(r1, dir) ELSE r1)
       ELSE scan_entries(r1, dir, rd.entries, 1)

\* Variant of run_result: one error is not told from several.
run_result_plural(n) ==
    CASE n = 0 -> [ok |-> TRUE, text |-> "elapsed"]
      [] OTHER -> [ok |-> FALSE, text |-> ToString(n) \o " failures"]

\* run: the value returned for self.errors
run_result(n) ==
    CASE n = 0 -> [ok |-> TRUE, text |-> "elapsed"]
      [] n = 1 -> [ok |-> FALSE, text |-> "1 failure"]
      [] OTHER -> [ok |-> FALSE, text |-> ToString(n) \o " failures"]

NotReturned == [ok |-> FALSE, text |-> "-"]

\* Ascending insertion of x into the sorted sequence s (times.sort())
RECURSIVE insert_sorted(_, _)
insert_sorted(s, x) ==
    IF s = << >> THEN << x >>
    ELSE IF x <= Head(s) THEN << x >> \o s
    ELSE << Head(s) >> \o insert_sorted(Tail(s), x)

RECURSIVE sort(_)
sort(s) == IF s = << >> THEN << >> ELSE insert_sorted(sort(Tail(s)), Head(s))

IsDoneOk(entry) == entry.state.tag = "Done" /\ entry.state.result.ok

\* report_slow_tests: the runtimes of the succeeded tests
ok_times(ts) ==
    LET oks == SelectSeq(ts, IsDoneOk)
    IN [i \in 1..Len(oks) |-> oks[i].state.result.dur]

\* Variant of slow_cut: the cut-off is 1.5 IQR above the third quartile.
slow_cut_box(ts) ==
    LET times == sort(ok_times(ts))
        len == Len(times)
        qlen == len \div 4
        q1 == times[qlen + 1]
        q3 == times[len - 1 - qlen + 1]
        iqr == q3 - q1
        cut == q3 + (iqr * 3) \div 2
    IN IF len < 4 THEN -1
       ELSE IF cut > times[len] THEN -1
       ELSE cut

\* report_slow_tests: the cut-off, or -1 when nothing is to be printed
slow_cut(ts) ==
    LET times == sort(ok_times(ts))
        len == Len(times)
        qlen == len \div 4
        q1 == times[qlen + 1]
        q3 == times[len - 1 - qlen + 1]
        iqr == q3 - q1
        cut == q3 + iqr * 3
    IN IF len < 4 THEN -1
       ELSE IF cut > times[len] THEN -1
       ELSE cut

RECURSIVE slow_lines(_, _, _)
slow_lines(ts, cut, i) ==
    IF i > Len(ts) THEN << >>
    ELSE (IF IsDoneOk(ts[i]) /\ ts[i].state.result.dur > cut
          THEN << [kind |-> "slow", line |-> Display(ts[i], i - 1)] >>
          ELSE << >>) \o slow_lines(ts, cut, i + 1)

\* TestRunner::report_slow_tests: the lines it prints
report_slow_tests(ts) ==
    LET cut == slow_cut(ts)
    IN IF cut < 0 THEN << >> ELSE slow_lines(ts, cut, 1)

----------------------------------------------------------------------------
(* The worker pool.                                                        *)

Off == [st |-> "off", jobid |-> -1, path |-> P("", NoExt)]
Idle == [st |-> "idle", jobid |-> -1, path |-> P("", NoExt)]
Exited == [st |-> "exited", jobid |-> -1, path |-> P("", NoExt)]
Busy(req) == [st |-> "busy", jobid |-> req.jobid, path |-> req.path]

\* ConcurrentRunner::new
PoolNew ==
    /\ intake' = << >>
    /\ replies' = << >>
    /\ workers' = [w \in Workers |-> Idle]
    /\ timer' = "running"
    /\ shut' = FALSE

PoolLive == pc # "fatal" /\ timer # "off"

\* every sender of the reply channel is gone
Closed == timer = "stopped" /\ \A w \in Workers : workers[w].st = "exited"

\* The workers are identical threads: of the idle ones the first stands for
\* whichever of them the scheduler picks.
FirstIdle(w) ==
    /\ workers[w].st = "idle"
    /\ \A v \in Workers : v < w => workers[v].st # "idle"

\* a worker takes a unit of work and announces it
WorkerTake(w) ==
    /\ PoolLive
    /\ FirstIdle(w)
    /\ intake # << >>
    /\ workers' = [workers EXCEPT ![w] = Busy(Head(intake))]
    /\ intake' = Tail(intake)
    /\ replies' = Append(replies, Starting(Head(intake).jobid))
    /\ exec' \in Decided(Head(intake).path)
    /\ UNCHANGED <<timer, shut>>
    /\ UNCHANGED <<verbose, runnerVars, threads, pc, ret, result, conc,
                   histVars, roots, ref>>

\* the Executor returns in a worker, which publishes the outcome
WorkerDone(w) ==
    /\ PoolLive
    /\ workers[w].st = "busy"
    /\ exec[workers[w].path.name] # "hang"
    /\ replies' = Append(replies,
                         DoneReply(workers[w].jobid,
                                   runone_run(exec, workers[w].path)))
    /\ workers' = [workers EXCEPT ![w] = Idle]
    /\ UNCHANGED <<intake, timer, shut>>
    /\ UNCHANGED <<verbose, runnerVars, threads, pc, ret, result, exec, conc,
                   histVars, roots, ref>>

\* after shutdown() a worker leaves once the intake has drained
WorkerExit(w) ==
    /\ PoolLive
    /\ FirstIdle(w)
    /\ shut
    /\ intake = << >>
    /\ workers' = [workers EXCEPT ![w] = Exited]
    /\ UNCHANGED <<intake, replies, timer, shut>>
    /\ UNCHANGED <<verbose, runnerVars, threads, pc, ret, result, exec, conc,
                   histVars, roots, ref>>

\* the timer thread emits a heartbeat
TimerTick ==
    /\ PoolLive
    /\ timer = "running"
    /\ replies = << >>
    /\ replies' = Append(replies, Tick)
    /\ UNCHANGED <<intake, workers, timer, shut>>
    /\ UNCHANGED <<verbose, runnerVars, threads, pc, ret, result, exec, conc,
                   histVars, roots, ref>>

\* the timer thread stops once shutdown() has signalled it
TimerStop ==
    /\ PoolLive
    /\ timer = "running"
    /\ shut
    /\ timer' = "stopped"
    /\ UNCHANGED <<intake, replies, workers, shut>>
    /\ UNCHANGED <<verbose, runnerVars, threads, pc, ret, result, exec, conc,
                   histVars, roots, ref>>

----------------------------------------------------------------------------
(* The coordinator: the public operations and the steps of run().          *)

NoRoots == [dir_stack |-> << >>, tests |-> << >>]

NoRef == [set |-> FALSE, out |-> << >>, errors |-> 0, result |-> NotReturned]

ExecUnknown == [n \in TestNames |-> "?"]

\* TestRunner::new
Init ==
    /\ verbose \in BOOLEAN
    /\ exec = ExecUnknown
    /\ dir_stack = << >>
    /\ tests = << >>
    /\ new_tests = 0
    /\ reported_tests = 0
    /\ errors = 0
    /\ ticks_since_progress = 0
    /\ threads = FALSE
    /\ pc = "setup"
    /\ ret = "scan"
    /\ out = << >>
    /\ stall_out = << >>
    /\ result = NotReturned
    /\ panic = "none"
    /\ intake = << >>
    /\ replies = << >>
    /\ workers = [w \in Workers |-> Off]
    /\ timer = "off"
    /\ shut = FALSE
    /\ conc = FALSE
    /\ hb_streak = 0
    /\ hb_warned = 0
    /\ finished = << >>
    /\ roots = NoRoots
    /\ ref = NoRef

\* the caller's push_dir(dir) before run()
PushDir(dir) ==
    /\ pc = "setup"
    /\ Len(dir_stack) + Len(tests) < MaxPush
    /\ \A i \in 1..Len(dir_stack) : dir_stack[i] # dir
    /\ Commit(push_dir(Self, dir))
    /\ UNCHANGED roots
    /\ UNCHANGED <<verbose, threads, pc, ret, result, exec, poolVars, conc,
                   histVars, ref>>

\* the caller's push_test(file) before run()
PushTest(file) ==
    /\ pc = "setup"
    /\ Len(dir_stack) + Len(tests) < MaxPush
    /\ \A i \in 1..Len(tests) : tests[i].path # file
    /\ Commit(push_test(Self, file))
    /\ UNCHANGED roots
    /\ UNCHANGED <<verbose, threads, pc, ret, result, exec, poolVars, conc,
                   histVars, ref>>

\* TestRunner::start_threads, before run() or after it has returned
StartThreads ==
    /\ pc \in {"setup", "returned"}
    /\ IF threads
       THEN /\ panic' = "assert"
            /\ pc' = "fatal"
            /\ UNCHANGED <<threads, poolVars>>
       ELSE /\ threads' = TRUE
            /\ PoolNew
            /\ UNCHANGED <<pc, panic>>
    /\ UNCHANGED <<verbose, dir_stack, tests, new_tests, reported_tests, errors,
                   ticks_since_progress, out, stall_out, ret, result, exec,
                   conc,
                   histVars, roots, ref>>

\* run() is entered
RunCall ==
    /\ pc = "setup"
    /\ pc' = "scan"
    /\ conc' = threads
    /\ roots' = [dir_stack |-> dir_stack, tests |-> tests]
    /\ UNCHANGED <<verbose, runnerVars, threads, ret, result, exec, poolVars,
                   histVars, ref>>

\* Variant of ScanDir: the next path is popped without schedule_jobs.
ScanDirNoSchedule ==
    /\ pc = "scan"
    /\ dir_stack # << >>
    /\ Commit(scan_one(Self))
    /\ pc' = "scan"
    /\ ret' = "scan"
    /\ UNCHANGED <<verbose, threads, result, exec, poolVars, conc, histVars,
                   roots, ref>>

\* scan_dirs: one directory is popped and read; schedule_jobs is next
ScanDir ==
    /\ pc = "scan"
    /\ dir_stack # << >>
    /\ Commit(scan_one(Self))
    /\ pc' = "sched"
    /\ ret' = "scan"
    /\ UNCHANGED <<verbose, threads, result, exec, poolVars, conc, histVars,
                   roots, ref>>

\* Variant of ScanEnd: scan_dirs may return while directories are left.
ScanEndEarly ==
    /\ pc = "scan"
    /\ pc' = "sched"
    /\ ret' = "drain"
    /\ UNCHANGED <<verbose, runnerVars, threads, result, exec, poolVars, conc,
                   histVars, roots, ref>>

\* scan_dirs returns; run() calls schedule_jobs once more
ScanEnd ==
    /\ pc = "scan"
    /\ dir_stack = << >>
    /\ pc' = "sched"
    /\ ret' = "drain"
    /\ UNCHANGED <<verbose, runnerVars, threads, result, exec, poolVars, conc,
                   histVars, roots, ref>>

\* Variant of schedule_job: a job handed to the pool is marked Running.
schedule_job_running(r, jobid, concurrent) ==
    IF Job(r, jobid).state.tag # "New"
    THEN [r EXCEPT !.panic = "assert"]
    ELSE IF concurrent
    THEN [SetState(r, jobid, Running) EXCEPT !.new_tests = jobid + 1]
    ELSE SetState(r, jobid, Running)

\* Variant of schedule_job: new_tests is not advanced past a queued job.
schedule_job_again(r, jobid, concurrent) ==
    IF Job(r, jobid).state.tag # "New"
    THEN [r EXCEPT !.panic = "assert"]
    ELSE IF concurrent
    THEN SetState(r, jobid, Queued)
    ELSE SetState(r, jobid, Running)

\* schedule_jobs: one iteration of the for loop, up to put() in concurrent
\* mode and up to the call of runone::run in synchronous mode
schedule_job(r, jobid, concurrent) ==
    IF Job(r, jobid).state.tag # "New"
    THEN [r EXCEPT !.panic = "assert"]
    ELSE IF concurrent
    THEN [SetState(r, jobid, Queued) EXCEPT !.new_tests = jobid + 1]
    ELSE SetState(r, jobid, Running)

\* schedule_jobs, synchronous mode: runone::run has returned res
run_inline(r, jobid, res) ==
    LET r1 == finish_job(r, jobid, res)
    IN IF r1.panic # "none" THEN r1 ELSE [r1 EXCEPT !.new_tests = jobid + 1]

PcAfter(r, next) == IF r.panic # "none" THEN "fatal" ELSE next

\* Variant of ScheduleQueue: the job is put() twice.
ScheduleQueueTwice ==
    /\ pc = "sched"
    /\ new_tests < Len(tests)
    /\ threads
    /\ LET r == schedule_job(Self, new_tests, TRUE)
           req == [jobid |-> new_tests, path |-> Job(Self, new_tests).path]
       IN /\ Commit(r)
          /\ pc' = PcAfter(r, pc)
          /\ intake' = IF r.panic # "none" THEN intake
                       ELSE Append(Append(intake, req), req)
    /\ UNCHANGED <<replies, workers, timer, shut>>
    /\ UNCHANGED <<verbose, threads, ret, result, exec, conc, histVars, roots,
                   ref>>

\* schedule_jobs, concurrent mode: the next New job is queued and put()
ScheduleQueue ==
    /\ pc = "sched"
    /\ new_tests < Len(tests)
    /\ threads
    /\ LET r == schedule_job(Self, new_tests, TRUE)
       IN /\ Commit(r)
          /\ pc' = PcAfter(r, pc)
          /\ intake' = IF r.panic # "none" THEN intake
                       ELSE Append(intake, [jobid |-> new_tests,
                                            path |-> Job(Self, new_tests).path])
    /\ UNCHANGED <<replies, workers, timer, shut>>
    /\ UNCHANGED <<verbose, threads, ret, result, exec, conc, histVars, roots,
                   ref>>

\* schedule_jobs, synchronous mode: the next New job enters the Executor
ScheduleRun ==
    /\ pc = "sched"
    /\ new_tests < Len(tests)
    /\ ~threads
    /\ exec' \in Decided(Job(Self, new_tests).path)
    /\ LET r == schedule_job(Self, new_tests, FALSE)
       IN /\ Commit(r)
          /\ pc' = PcAfter(r, "executor")
    /\ UNCHANGED <<verbose, threads, ret, result, poolVars, conc, histVars,
                   roots, ref>>

\* schedule_jobs, synchronous mode: the Executor returns (it never does for
\* a path on which it hangs) and the job is finished
ExecutorReturn ==
    /\ pc = "executor"
    /\ exec[Job(Self, new_tests).path.name] # "hang"
    /\ LET r == run_inline(Self, new_tests,
                           runone_run(exec, Job(Self, new_tests).path))
       IN /\ Commit(r)
          /\ pc' = PcAfter(r, "sched")
    /\ finished' = Append(finished, new_tests)
    /\ UNCHANGED <<hb_streak, hb_warned>>
    /\ UNCHANGED <<verbose, threads, ret, result, exec, poolVars, conc, roots,
                   ref>>

\* history of the replies the coordinator has handled; heartbeats are
\* counted up to the panic threshold
Handled(reply) ==
    /\ hb_streak' = CASE reply.kind = "Done" -> 0
                      [] reply.kind = "Tick" /\ hb_streak < TIMEOUT_PANIC ->
                           hb_streak + 1
                      [] OTHER -> hb_streak
    /\ hb_warned' = CASE reply.kind = "Done" -> 0
                      [] stall_out' # << >> -> hb_warned + 1
                      [] OTHER -> hb_warned
    /\ finished' = IF reply.kind = "Done" THEN Append(finished, reply.jobid)
                   ELSE finished

\* schedule_jobs: try_get() returns a reply, which is handled
PollReply ==
    /\ pc = "sched"
    /\ new_tests >= Len(tests)
    /\ threads
    /\ replies # << >>
    /\ LET r == handle_reply(Self, Head(replies))
       IN /\ Commit(r)
          /\ pc' = PcAfter(r, pc)
    /\ replies' = Tail(replies)
    /\ Handled(Head(replies))
    /\ UNCHANGED <<intake, workers, timer, shut>>
    /\ UNCHANGED <<verbose, threads, ret, result, exec, conc, roots, ref>>

\* schedule_jobs: no pool, or try_get() returns None; schedule_jobs returns
PollEmpty ==
    /\ pc = "sched"
    /\ new_tests >= Len(tests)
    /\ ~threads \/ replies = << >>
    /\ pc' = ret
    /\ UNCHANGED <<verbose, runnerVars, threads, ret, result, exec, poolVars,
                   conc, histVars, roots, ref>>

\* drain_threads without a pool
DrainSkip ==
    /\ pc = "drain"
    /\ ~threads
    /\ pc' = "report"
    /\ UNCHANGED <<verbose, runnerVars, threads, ret, result, exec, poolVars,
                   conc, histVars, roots, ref>>

\* Variant of Shutdown: the pool is taken and shutdown() is not called.
ShutdownForgotten ==
    /\ pc = "drain"
    /\ threads
    /\ threads' = FALSE
    /\ pc' = "recv"
    /\ UNCHANGED <<intake, replies, workers, timer, shut>>
    /\ UNCHANGED <<verbose, runnerVars, ret, result, exec, conc, histVars,
                   roots, ref>>

\* drain_threads: self.threads.take() and conc.shutdown()
Shutdown ==
    /\ pc = "drain"
    /\ threads
    /\ threads' = FALSE
    /\ shut' = TRUE
    /\ pc' = "recv"
    /\ UNCHANGED <<intake, replies, workers, timer>>
    /\ UNCHANGED <<verbose, runnerVars, ret, result, exec, conc, histVars,
                   roots, ref>>

\* Variant of drain_over: the loop also ends when no reply is ready.
drain_over_poll(r) ==
    \/ ~(r.reported_tests < Len(r.tests))
    \/ replies = << >>

\* drain_threads: the loop ends, all reported or conc.get() returned None
drain_over(r) ==
    \/ ~(r.reported_tests < Len(r.tests))
    \/ (replies = << >> /\ Closed)

\* drain_threads: conc.get() returns a reply, which is handled
DrainRecv ==
    /\ pc = "recv"
    /\ ~drain_over(Self)
    /\ replies # << >>
    /\ LET r == handle_reply(Self, Head(replies))
       IN /\ Commit(r)
          /\ pc' = PcAfter(r, pc)
    /\ replies' = Tail(replies)
    /\ Handled(Head(replies))
    /\ UNCHANGED <<intake, workers, timer, shut>>
    /\ UNCHANGED <<verbose, threads, ret, result, exec, conc, roots, ref>>

DrainExit ==
    /\ pc = "recv"
    /\ drain_over(Self)
    /\ pc' = "join"
    /\ UNCHANGED <<verbose, runnerVars, threads, ret, result, exec, poolVars,
                   conc, histVars, roots, ref>>

\* drain_threads: conc.join() returns when every thread has terminated
Join ==
    /\ pc = "join"
    /\ Closed
    /\ pc' = "report"
    /\ UNCHANGED <<verbose, runnerVars, threads, ret, result, exec, poolVars,
                   conc, histVars, roots, ref>>

\* run: what is printed after drain_threads
run_report(r) ==
    [r EXCEPT !.out = @ \o report_slow_tests(r.tests)
                        \o << [kind |-> "tests", total |-> Len(r.tests)] >>]

\* run: report_slow_tests, the summary line and the returned value
Finish ==
    /\ pc = "report"
    /\ Commit(run_report(Self))
    /\ result' = run_result(errors)
    /\ pc' = "returned"
    /\ UNCHANGED <<verbose, threads, ret, exec, poolVars, conc, histVars,
                   roots, ref>>

Next ==
    \/ \E dir \in RootDirs : PushDir(dir)
    \/ \E file \in RootTests : PushTest(file)
    \/ StartThreads
    \/ RunCall
    \/ ScanDir
    \/ ScanEnd
    \/ ScheduleQueue
    \/ ScheduleRun
    \/ ExecutorReturn
    \/ PollReply
    \/ PollEmpty
    \/ DrainSkip
    \/ Shutdown
    \/ DrainRecv
    \/ DrainExit
    \/ Join
    \/ Finish
    \/ \E w \in Workers : WorkerTake(w)
    \/ \E w \in Workers : WorkerDone(w)
    \/ \E w \in Workers : WorkerExit(w)
    \/ TimerTick
    \/ TimerStop

Spec == Init /\ [][Next]_vars

----------------------------------------------------------------------------
(* Scheduling.  The coordinator is one thread that takes its next step     *)
(* whenever it can; each worker is a thread of its own; the timer thread   *)
(* emits a heartbeat every period while it runs, and stops once it has     *)
(* been signalled.                                                         *)

CoordStep ==
    \/ ScanDir \/ ScanEnd \/ ScheduleQueue \/ ScheduleRun \/ ExecutorReturn
    \/ PollReply \/ PollEmpty \/ DrainSkip \/ Shutdown \/ DrainRecv
    \/ DrainExit \/ Join \/ Finish

WorkerStep == \E w \in Workers : WorkerTake(w) \/ WorkerDone(w) \/ WorkerExit(w)

\* the coordinator runs, and a worker that can take a step is not held back
\* for ever
Fairness == WF_vars(CoordStep) /\ WF_vars(WorkerStep)

\* What is printed for a successful job has no part in whether a run ends:
\* the runs of the two specifications below are the non-verbose ones.
InitQuiet == Init /\ ~verbose

\* the timer keeps emitting heartbeats for as long as it runs
FairHang == InitQuiet /\ [][Next]_vars /\ Fairness /\ WF_vars(TimerTick)

\* the timer thread stops after shutdown()
FairDrain == InitQuiet /\ [][Next]_vars /\ Fairness /\ WF_vars(TimerStop)

----------------------------------------------------------------------------
(* The same roots run twice: after a synchronous run has returned, a new   *)
(* runner is given the same roots and the same Executor, start_threads()   *)
(* is called and run() is entered.  ref keeps what the first run printed   *)
(* and returned.                                                           *)

Rerun ==
    /\ pc = "returned"
    /\ ~conc
    /\ ~threads
    /\ ~ref.set
    /\ ref' = [set |-> TRUE, out |-> out, errors |-> errors,
               result |-> result]
    /\ dir_stack' = roots.dir_stack
    /\ tests' = roots.tests
    /\ new_tests' = 0
    /\ reported_tests' = 0
    /\ errors' = 0
    /\ ticks_since_progress' = 0
    /\ out' = << >>
    /\ stall_out' = << >>
    /\ panic' = "none"
    /\ result' = NotReturned
    /\ threads' = TRUE
    /\ PoolNew
    /\ conc' = TRUE
    /\ pc' = "scan"
    /\ ret' = "scan"
    /\ hb_streak' = 0
    /\ hb_warned' = 0
    /\ finished' = << >>
    /\ UNCHANGED <<verbose, exec, roots>>

NextEq == Next \/ Rerun

SpecEq == Init /\ [][NextEq]_vars

----------------------------------------------------------------------------
(* Properties.                                                             *)

JobLine(l) == l.kind \in {"time", "FAIL"}
JobLineIdx == { i \in DOMAIN out : JobLine(out[i]) }
IsDone(j) == tests[j + 1].state.tag = "Done"
JobIds == 0..(Len(tests) - 1)

\* C1: the job report lines appear in strictly increasing job-id order, so
\* no job is reported twice, and a job's line is printed only when it and
\* every job before it are Done and the report frontier has passed them,
\* whatever the order in which the jobs finished.
C1_OrderedReport ==
    /\ \A i \in JobLineIdx : \A j \in JobLineIdx :
          i < j => out[i].id < out[j].id
    /\ \A i \in JobLineIdx :
          /\ out[i].id < reported_tests
          /\ \A k \in 0..out[i].id : IsDone(k)

\* Two jobs finished in the reverse of their submission order and both
\* have been reported.
C1_Witness ==
    /\ Len(finished) >= 2
    /\ finished[1] > finished[2]
    /\ Cardinality(JobLineIdx) >= 2

StepOK(j) ==
    LET a == tests[j].state.tag
        b == tests'[j].state.tag
    IN \/ tests'[j] = tests[j]
       \/ a = "New" /\ b = "Queued" /\ conc /\ tests'[j].path = tests[j].path
       \/ a = "New" /\ b = "Running" /\ ~conc /\ tests'[j].path = tests[j].path
       \/ a = "Queued" /\ b = "Running" /\ conc /\ tests'[j].path = tests[j].path
       \/ a = "Running" /\ b = "Done" /\ tests'[j].path = tests[j].path

\* C3: a job's state only moves New -> Queued -> Running -> Done and a Done
\* job stays as it is; without a pool a job goes from New to Running and is
\* never Queued, with a pool it goes from New to Queued and only from there
\* to Running.
C3_Forward ==
    [][ /\ Len(tests') >= Len(tests)
        /\ \A j \in 1..Len(tests) : StepOK(j) ]_vars

\* With a pool, one job is Running (after having been Queued) and one is Done.
C3_Witness ==
    /\ conc
    /\ \E j \in JobIds : tests[j + 1].state.tag = "Running"
    /\ \E j \in JobIds : IsDone(j)

\* A report line without its timing text.
Untimed(l) == [kind |-> l.kind, path |-> l.path, err |-> l.err]

UntimedSeq(ls) == [i \in 1..Len(ls) |-> Untimed(ls[i])]

ScanLine(l) == l.kind = "scanerr"
ReportLine(l) == JobLine(l) \/ ScanLine(l)

\* The original statement of C4: the concurrent run prints the same
\* scan-error and job report lines in the same order as the synchronous
\* run of the same roots, and ends with the same error count.
C4_SameReport ==
    (pc = "returned" /\ ref.set) =>
        /\ UntimedSeq(SelectSeq(out, ReportLine))
             = UntimedSeq(SelectSeq(ref.out, ReportLine))
        /\ errors = ref.errors

\* C4: the concurrent run prints the same job report lines in the same
\* order and the same scan-error lines in the same order as the synchronous
\* run of the same roots (timing text aside), and ends with the same error
\* count and the same result; only the place of the scan-error lines among
\* the job lines may differ.
C4_SameLinesPerKind ==
    (pc = "returned" /\ ref.set) =>
        /\ UntimedSeq(SelectSeq(out, JobLine))
             = UntimedSeq(SelectSeq(ref.out, JobLine))
        /\ UntimedSeq(SelectSeq(out, ScanLine))
             = UntimedSeq(SelectSeq(ref.out, ScanLine))
        /\ errors = ref.errors
        /\ result = ref.result

\* Both runs have returned; in the concurrent one the jobs finished in
\* reverse order, and job lines and a scan-error line were printed.
C4_Witness ==
    /\ pc = "returned"
    /\ ref.set
    /\ Len(finished) >= 2
    /\ finished[1] > finished[2]
    /\ Cardinality(JobLineIdx) >= 2
    /\ \E i \in DOMAIN out : ScanLine(out[i])

FailedJobs ==
    Cardinality({ j \in JobIds : IsDone(j) /\ ~tests[j + 1].state.result.ok })
ScanErrors == Cardinality({ i \in DOMAIN out : ScanLine(out[i]) })

\* C5: when run() returns, every job has been executed, the error counter
\* is the number of failed jobs plus the number of scan errors printed, and
\* the result is success exactly for 0, "1 failure" for 1 and "N failures"
\* for N >= 2.
C5_Aggregate ==
    (pc = "returned") =>
        /\ \A j \in JobIds : IsDone(j)
        /\ errors = FailedJobs + ScanErrors
        /\ result.ok <=> errors = 0
        /\ errors = 1 => result.text = "1 failure"
        /\ errors >= 2 => result.text = ToString(errors) \o " failures"

\* run() has returned after a failed job, a successful job and a scan error.
C5_Witness ==
    /\ pc = "returned"
    /\ errors >= 2
    /\ FailedJobs >= 1
    /\ FailedJobs < Len(tests)
    /\ ScanErrors >= 1

\* The count that a failure text carries.
CountCarried(text) ==
    IF text = "1 failure" THEN 1
    ELSE CHOOSE n \in 0..(Len(tests) + Len(out)) :
           text = ToString(n) \o " failures"

\* The original statement of C6: a failure returned by run() carries the
\* number of failed jobs.
C6_CountsFailedJobs ==
    (pc = "returned" /\ ~result.ok) => CountCarried(result.text) = FailedJobs

\* C6: a failure returned by run() carries the number of failed jobs plus
\* the number of scan errors.
C6_CountsAllErrors ==
    (pc = "returned" /\ ~result.ok) =>
        CountCarried(result.text) = FailedJobs + ScanErrors

\* run() has returned a failure after a failed job and a scan error.
C6_Witness ==
    /\ pc = "returned"
    /\ ~result.ok
    /\ FailedJobs >= 1
    /\ ScanErrors >= 1

RunningJobs == { j \in JobIds : tests[j + 1].state.tag = "Running" }

\* C7: the stall counter is the number of heartbeats handled since the last
\* handled Done (a Starting does not reset it); a warning is printed once
\* per streak, when the counter reaches the slow threshold, and lists
\* exactly the Running jobs; at the panic threshold the run is aborted, so
\* the counter is below it in every state that is not aborted.
C7_StallCounter ==
    /\ ticks_since_progress = hb_streak
    /\ hb_warned = (IF hb_streak >= TIMEOUT_SLOW THEN 1 ELSE 0)
    /\ stall_out # << >> =>
          /\ hb_streak = TIMEOUT_SLOW
          /\ stall_out[1].kind = "STALLED"
          /\ \A i \in 2..Len(stall_out) : stall_out[i].kind = "slow"
          /\ { stall_out[i].line.id : i \in 2..Len(stall_out) } = RunningJobs
          /\ Len(stall_out) - 1 = Cardinality(RunningJobs)
    /\ pc # "fatal" => ticks_since_progress < TIMEOUT_PANIC
    /\ hb_streak >= TIMEOUT_PANIC => (pc = "fatal" /\ panic = "watchdog")

\* A stall warning that lists a Running job has just been printed, after
\* another job had finished.
C7_Witness ==
    /\ Len(stall_out) >= 2
    /\ hb_streak = TIMEOUT_SLOW
    /\ finished # << >>
    /\ pc # "fatal"

\* C8: the watchdog aborts only while a submitted job is Queued or Running.
C8_NoFalsePositive ==
    (panic = "watchdog") =>
        \E j \in JobIds : tests[j + 1].state.tag \in {"Queued", "Running"}

\* A worker is inside an Executor call that never returns.
Hung ==
    /\ conc
    /\ \E w \in Workers :
          workers[w].st = "busy" /\ exec[workers[w].path.name] = "hang"

\* C9: with a pool, once an Executor call hangs, run() never returns a
\* result, and as long as the timer thread goes on emitting heartbeats the
\* coordinator does not wait for ever: the watchdog aborts the run.
C9_HangAborts ==
    /\ [](Hung => pc \notin {"join", "report", "returned"})
    /\ Hung ~> (pc = "fatal" \/ timer = "stopped")

\* The watchdog has aborted the blocking receive loop of drain_threads
\* while a worker hangs and the timer runs.
C9_Witness ==
    /\ Hung
    /\ pc = "fatal"
    /\ panic = "watchdog"
    /\ shut
    /\ timer = "running"

NoHang == \A n \in TestNames : exec[n] # "hang"

\* C10: with a pool, if no Executor call hangs, the receive loop of
\* drain_threads ends and join() returns, unless the watchdog aborts the
\* run first.
C10_DrainEnds ==
    (pc = "recv") ~> (pc \in {"report", "returned", "fatal"} \/ ~NoHang)

\* join() has returned after a run of two jobs with a pool.
C10_Witness ==
    /\ pc = "report"
    /\ conc
    /\ Len(tests) >= 2
    /\ Closed

\* The coordinator's calls to the pool, as seen in one step: put() grows the
\* request channel, try_get() and get() take a reply, shutdown() sets the
\* flag, join() is the step out of "join".
PutStep == Len(intake') > Len(intake)
TakeStep ==
    /\ pc \notin {"setup", "returned"}
    /\ replies # << >>
    /\ replies' = Tail(replies)
ShutdownStep == ~shut /\ shut'
JoinStep == pc = "join" /\ pc' = "report"

\* C11: in a concurrent run put() and try_get() happen only before
\* shutdown(), shutdown() happens once, after the last job has been
\* submitted, the blocking get() happens only after shutdown(), join()
\* happens only after shutdown() and nothing is asked of the pool after it;
\* the coordinator is never in the blocking receive loop while the scan
\* frontier is non-empty.
C11_PoolCallOrder ==
    /\ [](pc \in {"recv", "join"} => (shut /\ dir_stack = << >>))
    /\ [][ /\ PutStep => (pc = "sched" /\ ~shut)
           /\ (TakeStep /\ ~shut) => pc = "sched"
           /\ (TakeStep /\ shut) => pc = "recv"
           /\ ShutdownStep =>
                 (pc = "drain" /\ dir_stack = << >> /\ new_tests = Len(tests))
           /\ (shut /\ ~shut') => pc = "returned"
           /\ JoinStep => (shut /\ shut')
           /\ pc \in {"join", "report"} => (~PutStep /\ ~TakeStep) ]_vars

\* A concurrent run of a directory with two jobs has gone through polling,
\* shutdown(), the receive loop and join().
C11_Witness ==
    /\ pc = "returned"
    /\ conc
    /\ shut
    /\ roots.dir_stack # << >>
    /\ Len(finished) >= 2

\* scan_dirs pops the path on top of the frontier and reads it.
TopDir == dir_stack[Len(dir_stack)]
PopStep == pc = "scan" /\ dir_stack # << >> /\ pc' # "scan"

\* A synchronous run is inside an Executor call that never returns.
SyncHang ==
    /\ pc = "executor"
    /\ exec[tests[new_tests + 1].path.name] = "hang"

\* C12: when reading the path popped from the frontier fails, no job is
\* created and the rest of the frontier is kept; no error is counted and
\* nothing is printed if the path is a regular file, and exactly one error
\* is counted otherwise; the scan goes on with schedule_jobs and the next
\* path, and every directory left on the frontier is visited, unless the
\* run is aborted or the Executor hangs in a synchronous run.
C12_ReadFailure ==
    /\ [][ (PopStep /\ ~ReadDir(TopDir).ok) =>
             /\ tests' = tests
             /\ dir_stack' = SubSeq(dir_stack, 1, Len(dir_stack) - 1)
             /\ IsFile(TopDir) => (errors' = errors /\ out' = out)
             /\ ~IsFile(TopDir) => errors' = errors + 1
             /\ pc' = "sched" /\ ret' = "scan" ]_vars
    /\ (pc # "setup" /\ dir_stack # << >>)
          ~> (dir_stack = << >> \/ pc = "fatal" \/ SyncHang)

\* The run of root g has returned: the read of g/gone failed and was
\* counted, the read of the regular file g/f failed and was not, and no job
\* was created.
C12_Witness ==
    /\ pc = "returned"
    /\ roots.dir_stack = << P("g", NoExt) >>
    /\ dir_stack = << >>
    /\ errors = 1
    /\ tests = << >>
    /\ Len(out) = 2

----------------------------------------------------------------------------
(* The slow-test report on its own: run() is about to call                 *)
(* report_slow_tests after a synchronous, non-verbose run whose jobs were  *)
(* all pushed with push_test.  Each job has failed (-1) or succeeded with  *)
(* one of a few durations.                                                 *)

SlowDurs == {1, 2, 5, 50}
Failed == -1
SlowExample == << 1, 2, 2, 3, 3, 3, 4, 4, 5, 50 >>

SlowInputs ==
    UNION { [1..n -> SlowDurs \cup {Failed}] : n \in 0..MaxJobs }
      \cup { SlowExample }

JobPath(i) == P(ToString(i - 1), "cton")

\* the job list after every job has run
DoneJobs(ds) ==
    [i \in 1..Len(ds) |->
        QueueEntry(JobPath(i),
                   Done(IF ds[i] = Failed THEN Err("syntax error on line 3")
                        ELSE Ok(ds[i])))]

IsFailLine(l) == l.kind = "FAIL"

\* what a non-verbose run has printed for the job list ts
FailLines(ts) ==
    SelectSeq([i \in 1..Len(ts) |-> Display(ts[i], i - 1)], IsFailLine)

InitSlow ==
    \E ds \in SlowInputs :
        /\ verbose = FALSE
        /\ exec = ExecUnknown
        /\ dir_stack = << >>
        /\ tests = DoneJobs(ds)
        /\ new_tests = Len(ds)
        /\ reported_tests = Len(ds)
        /\ errors = Cardinality({ i \in 1..Len(ds) : ds[i] = Failed })
        /\ ticks_since_progress = 0
        /\ threads = FALSE
        /\ pc = "report"
        /\ ret = "drain"
        /\ out = FailLines(DoneJobs(ds))
        /\ stall_out = << >>
        /\ result = NotReturned
        /\ panic = "none"
        /\ intake = << >>
        /\ replies = << >>
        /\ workers = [w \in Workers |-> Off]
        /\ timer = "off"
        /\ shut = FALSE
        /\ conc = FALSE
        /\ hb_streak = 0
        /\ hb_warned = 0
        /\ finished = [i \in 1..Len(ds) |-> i - 1]
        /\ roots = [dir_stack |-> << >>,
                    tests |-> [i \in 1..Len(ds) |->
                                 QueueEntry(JobPath(i), New)]]
        /\ ref = NoRef

SpecSlow == InitSlow /\ [][Finish]_vars

\* The successful jobs and their durations.
OkIds == { j \in JobIds : IsDoneOk(tests[j + 1]) }
DurOf(j) == tests[j + 1].state.result.dur

\* The k-th (from 0) of the successful durations in ascending order.
Kth(k) ==
    CHOOSE v \in { DurOf(j) : j \in OkIds } :
        /\ Cardinality({ j \in OkIds : DurOf(j) < v }) <= k
        /\ k < Cardinality({ j \in OkIds : DurOf(j) <= v })

Cutoff ==
    LET n == Cardinality(OkIds)
        q1 == Kth(n \div 4)
        q3 == Kth(n - 1 - (n \div 4))
    IN q3 + 3 * (q3 - q1)

Flagged ==
    IF Cardinality(OkIds) < 4 THEN {}
    ELSE { j \in OkIds : DurOf(j) > Cutoff }

SlowIdx == { i \in DOMAIN out : out[i].kind = "slow" }

\* C13: the slow-test report prints one "slow" line for each successful job
\* whose duration exceeds Q3 + 3*(Q3 - Q1) and for no other job, with
\* Q1 = durations[n div 4] and Q3 = durations[n - 1 - n div 4] of the n
\* successful durations in ascending order; it prints none when n < 4 and
\* none for a failed job; for [1,2,2,3,3,3,4,4,5,50] the cut-off is 10 and
\* only the last job is flagged.
C13_SlowOutliers ==
    (pc = "returned") =>
        /\ { out[i].line.id : i \in SlowIdx } = Flagged
        /\ Cardinality(SlowIdx) = Cardinality(Flagged)
        /\ \A i \in SlowIdx : out[i].line.kind = "time"
        /\ Cardinality(OkIds) < 4 => SlowIdx = {}
        /\ tests = DoneJobs(SlowExample) => (Cutoff = 10 /\ Flagged = {9})

\* A report over five jobs, one failed and four successful, has flagged one
\* of the successful ones and not the others.
C13_Witness ==
    /\ pc = "returned"
    /\ Len(tests) = 5
    /\ Cardinality(OkIds) = 4
    /\ Cardinality(SlowIdx) = 1

----------------------------------------------------------------------------
\* A step that is a call of start_threads(): it creates the pool or fails
\* its assertion.
StartCall ==
    /\ pc \in {"setup", "returned"}
    /\ (~threads /\ threads') \/ (panic = "none" /\ panic' = "assert")

\* start_threads() has been called on this runner: the pool it created is
\* held, or run() was entered with it.
StartedBefore == threads \/ conc

\* C14: a call of start_threads() on a runner on which it has been called
\* before fails its assertion, also after run() has completed.
C14_SecondStartFails ==
    [][ (StartCall /\ StartedBefore) => panic' = "assert" ]_vars

----------------------------------------------------------------------------
\* The lines of one kind printed for job j.
LinesOf(kind, j) ==
    { i \in JobLineIdx : out[i].kind = kind /\ out[i].id = j }

TotalLines == { i \in DOMAIN out : out[i].kind = "tests" }

\* C15: when run() returns, one FAIL line, with the job's path and error,
\* has been printed for each failed job and none for a successful job; one
\* success line has been printed for each successful job in verbose mode
\* and none in non-verbose mode; successful jobs are behind the report
\* frontier and in the total all the same.
C15_LinesPerJob ==
    (pc = "returned") =>
        /\ \A j \in JobIds :
              LET res == tests[j + 1].state.result
              IN /\ IsDone(j)
                 /\ Cardinality(LinesOf("FAIL", j)) = (IF res.ok THEN 0 ELSE 1)
                 /\ Cardinality(LinesOf("time", j)) =
                       (IF res.ok /\ verbose THEN 1 ELSE 0)
                 /\ \A i \in LinesOf("FAIL", j) :
                       /\ out[i].path = tests[j + 1].path.name
                       /\ out[i].err = res.err
        /\ \A i \in JobLineIdx : out[i].id \in JobIds
        /\ reported_tests = Len(tests)
        /\ \A i \in TotalLines : out[i].total = Len(tests)
        /\ Cardinality(TotalLines) = 1

\* A non-verbose run of a failed and a successful job has returned.
C15_Witness ==
    /\ pc = "returned"
    /\ ~verbose
    /\ \E j \in JobIds : LinesOf("FAIL", j) # {}
    /\ \E j \in JobIds : tests[j + 1].state.result.ok

----------------------------------------------------------------------------
\* The reply the coordinator handles next, if there is one.
NextReplyIs(kind) == replies # << >> /\ Head(replies).kind = kind

\* C16: in a run with a pool none of the coordinator's assertions on job
\* states fails: every job from new_tests on is New (but the one a
\* synchronous run has inside the Executor), the job of the
\* Starting reply handled next is Queued, the job of the Done reply handled
\* next is Running (as is the job inside the Executor of a synchronous
\* run), and the only assertion that ever fails is that of start_threads.
C16_AssertionsHold ==
    /\ []( /\ \A j \in JobIds :
                (j >= new_tests /\ ~(pc = "executor" /\ j = new_tests)) =>
                    tests[j + 1].state.tag = "New"
           /\ (conc /\ pc # "returned" /\ NextReplyIs("Starting")) =>
                 tests[Head(replies).jobid + 1].state.tag = "Queued"
           /\ (conc /\ pc # "returned" /\ NextReplyIs("Done")) =>
                 tests[Head(replies).jobid + 1].state.tag = "Running"
           /\ pc = "executor" => tests[new_tests + 1].state.tag = "Running" )
    /\ [][ (panic = "none" /\ panic' = "assert") => StartCall ]_vars

\* With a pool, the Done reply of one job is next in the channel after
\* another job has finished.
C16_Witness ==
    /\ conc
    /\ pc \in {"sched", "recv"}
    /\ NextReplyIs("Done")
    /\ finished # << >>

----------------------------------------------------------------------------
(* Runs of a runner on which push_test and push_dir have both been called: *)
(* the test x.cton and one of the root directories.                        *)

InitMixed ==
    /\ verbose = FALSE
    /\ exec = ExecUnknown
    /\ dir_stack \in { << d >> : d \in RootDirs }
    /\ tests = << QueueEntry(P("x.cton", "cton"), New) >>
    /\ new_tests = 0
    /\ reported_tests = 0
    /\ errors = 0
    /\ ticks_since_progress = 0
    /\ threads = FALSE
    /\ pc = "setup"
    /\ ret = "scan"
    /\ out = << >>
    /\ stall_out = << >>
    /\ result = NotReturned
    /\ panic = "none"
    /\ intake = << >>
    /\ replies = << >>
    /\ workers = [w \in Workers |-> Off]
    /\ timer = "off"
    /\ shut = FALSE
    /\ conc = FALSE
    /\ hb_streak = 0
    /\ hb_warned = 0
    /\ finished = << >>
    /\ roots = NoRoots
    /\ ref = NoRef

\* start_threads, run() and the threads of the pool
NextRun ==
    \/ StartThreads
    \/ RunCall
    \/ ScanDir
    \/ ScanEnd
    \/ ScheduleQueue
    \/ ScheduleRun
    \/ ExecutorReturn
    \/ PollReply
    \/ PollEmpty
    \/ DrainSkip
    \/ Shutdown
    \/ DrainRecv
    \/ DrainExit
    \/ Join
    \/ Finish
    \/ \E w \in Workers : WorkerTake(w)
    \/ \E w \in Workers : WorkerDone(w)
    \/ \E w \in Workers : WorkerExit(w)
    \/ TimerTick
    \/ TimerStop

SpecMixed == InitMixed /\ [][NextRun]_vars

\* scan_dirs is about to pop a path.
AtPop == pc = "scan" /\ dir_stack # << >>

IsNew(j) == tests[j + 1].state.tag = "New"

----------------------------------------------------------------------------
\* get() in drain_threads would report the channel closed.
GetClosed == pc = "recv" /\ replies = << >> /\ Closed

\* C18: when run() is past drain_threads and when it has returned a
\* result, every job is Done and reported_tests = new_tests = len(tests),
\* so success is never returned with a job New, Queued or Running; when
\* the reply channel is closed in the receive loop, every job has been
\* reported already.
C18_ReturnedAllDone ==
    /\ pc \in {"join", "report", "returned"} =>
          /\ \A j \in JobIds : IsDone(j)
          /\ reported_tests = Len(tests)
          /\ new_tests = Len(tests)
    /\ (pc = "returned" /\ result.ok) =>
          \A j \in JobIds :
              tests[j + 1].state.tag \notin {"New", "Queued", "Running"}
    /\ GetClosed => (reported_tests = Len(tests) /\ new_tests = Len(tests))

\* The channel is closed while drain_threads is in its loop, after a run of
\* two jobs with a pool.
C18_Witness ==
    /\ GetClosed
    /\ conc
    /\ Len(tests) >= 2

----------------------------------------------------------------------------
\* The length of the longest prefix of the job list whose jobs are all Done.
DonePrefix ==
    CHOOSE n \in 0..Len(tests) :
        /\ \A j \in JobIds : j < n => IsDone(j)
        /\ n < Len(tests) => ~IsDone(n)

\* C19: once finish_job has completed, reported_tests is the length of the
\* longest prefix of Done jobs: the job at reported_tests, if there is
\* one, is not Done.  Jobs become Done in finish_job only, so this holds in
\* every state between the coordinator's steps.
C19_ReportedIsDonePrefix ==
    /\ reported_tests = DonePrefix
    /\ reported_tests < Len(tests) => ~IsDone(reported_tests)

\* A job has finished ahead of an earlier one: it is Done and not reported,
\* while reporting has gone as far as it can.
C19_Witness ==
    /\ finished # << >>
    /\ reported_tests < Len(tests)
    /\ \E j \in JobIds : j > reported_tests /\ IsDone(j)

----------------------------------------------------------------------------
\* A synchronous run calls runone::run.
InlineStep == pc = "sched" /\ pc' = "executor"

\* The job that schedule_jobs hands over in this step.
Request == [jobid |-> new_tests, path |-> tests[new_tests + 1].path]

\* C20: schedule_jobs hands each job to the Executor once, in increasing
\* job-id order: a step that puts a job to the pool or runs it inline takes
\* the New job at new_tests, which is New no longer, and a job leaves New
\* in no other way; new_tests never decreases; the requests waiting in the
\* pool are distinct, in increasing order and below new_tests; when run()
\* returns every job has been executed exactly once.
C20_SubmittedOnce ==
    /\ [][ /\ PutStep =>
                /\ new_tests < Len(tests) /\ IsNew(new_tests)
                /\ intake' = Append(intake, Request)
                /\ new_tests' = new_tests + 1
           /\ InlineStep => (new_tests < Len(tests) /\ IsNew(new_tests))
           /\ \A j \in JobIds :
                 (IsNew(j) /\ tests'[j + 1].state.tag # "New") =>
                     (j = new_tests /\ (PutStep \/ InlineStep))
           /\ new_tests' >= new_tests ]_vars
    /\ []( /\ \A i \in DOMAIN intake : intake[i].jobid < new_tests
           /\ \A i \in DOMAIN intake : \A k \in DOMAIN intake :
                 i < k => intake[i].jobid < intake[k].jobid
           /\ \A i \in DOMAIN finished : \A k \in DOMAIN finished :
                 i # k => finished[i] # finished[k]
           /\ pc = "returned" =>
                 { finished[i] : i \in DOMAIN finished } = JobIds )

\* With a pool, a later call of schedule_jobs has put a job while an
\* earlier job has already finished.
C20_Witness ==
    /\ conc
    /\ pc = "sched"
    /\ intake # << >>
    /\ finished # << >>

====
